---- MODULE Spec2Model ----
(***************************************************************************)
(* Model of the EDLists download stage (stages/download_edlists.py) and of *)
(* the row-count checks of the brick test suite (tests/test_brick.py).     *)
(*                                                                         *)
(* A URL is a sequence of tokens ("/a.xlsx" is <<"/", "a", ".xlsx">>), a   *)
(* page is the sequence of the links its HTML holds, and a file is the     *)
(* sequence of the chunks written to it (Absent when it does not exist).   *)
(***************************************************************************)
EXTENDS Integers, Sequences, FiniteSets, TLC

VARIABLES
    argc,           \* len(sys.argv)
    pc,             \* position of main
    exitStatus,     \* process exit status, -1 while running
    dirExists,      \* download_path exists
    files,          \* contents of the files of download_path
    cur,            \* index in LISTS of the source being processed
    export_urls,    \* candidates of the current source
    idx,            \* index in export_urls of the next candidate
    success_count,  \* try_direct_download's counter
    requests,       \* URLs requested while processing the current source
    pageFetches,    \* per source, number of GETs of its page URL in this run
    outcome,        \* per source, how its processing ended in this run
    wfailed,        \* <<source, n>>: writing the body of its n-th request raised first
    run,            \* number of the current run of the stage
    dirExists0,     \* download_path existed before the first run
    files0,         \* the files before the first run
    filesRun1,      \* the files at the end of the first run
    world,          \* the environment's answers, when they are fixed
    rows,           \* per brick file, len(df)
    passed          \* per test, its verdict ("none" before it ran)

vars == <<argc, pc, exitStatus, dirExists, files, cur, export_urls, idx,
          success_count, requests, pageFetches, outcome, wfailed, run,
          dirExists0, files0, filesRun1, world, rows, passed>>

----------------------------------------------------------------------------
(* Bounds *)

MaxLinks == 2       \* links in one page
MaxRuns == 2        \* runs of the stage on one directory (SpecIdem)

----------------------------------------------------------------------------
(* Configuration *)

\* LISTS.items() iterates in insertion order
LISTS == <<"list_i_eu_identified", "list_ii_under_evaluation",
           "list_iii_national_authority">>

Sources == {LISTS[i] : i \in 1..Len(LISTS)}

Host == <<"https://", "edlists.org">>

PageUrl(s) == Host \o <<"/", "the-ed-lists", s>>

README == "DOWNLOAD_INSTRUCTIONS.md"

FileNames == Sources \cup {README}

MinContentLength == 1000

----------------------------------------------------------------------------
(* Strings *)

\* re.IGNORECASE on the tokens the pages use
Lower(t) == CASE t = ".XLSX" -> ".xlsx"
              [] t = "Export" -> "export"
              [] OTHER -> t

ContainsIgnoreCase(u, t) == \E i \in 1..Len(u) : Lower(u[i]) = t

StartsWithHttp(u) == Len(u) > 0 /\ u[1] \in {"http://", "https://"}

StartsWithSlash(u) == Len(u) > 0 /\ u[1] = "/"

\* lines 81-82
AbsoluteUrl(u) ==
    IF StartsWithHttp(u) THEN u
    ELSE IF StartsWithSlash(u) THEN Host \o u
    ELSE Host \o <<"/">> \o u

----------------------------------------------------------------------------
(* Link discovery, lines 64-77 *)

Link(a, u) == [attr |-> a, url |-> u]

Links == { Link("href", <<"/", "a", ".xlsx">>),
           Link("href", <<"export", ".XLSX">>),
           Link("data-href", <<"https://", "edlists.org", "/", "dl">>),
           Link("href", <<"/", "about">>) }

\* href="..." is matched wherever it occurs, so also as the tail of data-href="..."
HrefMatches(l) == l.attr \in {"href", "data-href"}

DataHrefMatches(l) == l.attr = "data-href"

Urls(ls) == [i \in 1..Len(ls) |-> ls[i].url]

IsXlsxLink(l) == HrefMatches(l) /\ ContainsIgnoreCase(l.url, ".xlsx")

IsExportLink(l) == HrefMatches(l) /\ ContainsIgnoreCase(l.url, "export")

xlsx_links(html) == Urls(SelectSeq(html, IsXlsxLink))

export_links(html) == Urls(SelectSeq(html, IsExportLink))

download_links(html) == Urls(SelectSeq(html, DataHrefMatches))

Discover(html) == xlsx_links(html) \o export_links(html) \o download_links(html)

----------------------------------------------------------------------------
(* The environment: what the network and the file system may answer *)

SeqsUpTo(S, n) == UNION {[1..k -> S] : k \in 0..n}

Htmls == SeqsUpTo(Links, MaxLinks)

NetworkErrors == {"ConnectionError"}

PageStatuses == {200, 404}

PageResp(st, h) == [kind |-> "resp", exc |-> "none", status |-> st, html |-> h]

PageExc(e) == [kind |-> "exc", exc |-> e, status |-> 0, html |-> << >>]

PageResults ==
    {PageExc(e) : e \in NetworkErrors}
    \cup {PageResp(st, << >>) : st \in PageStatuses \ {200}}
    \cup {PageResp(200, h) : h \in Htmls}

Statuses == {200, 201, 404}

Lengths == {1000, 1001}

Resp(st, n) == [kind |-> "resp", exc |-> "none", status |-> st, len |-> n]

RespExc(e) == [kind |-> "exc", exc |-> e, status |-> 0, len |-> 0]

Responses ==
    {RespExc(e) : e \in NetworkErrors}
    \cup {Resp(st, n) : st \in Statuses, n \in Lengths}

WriteOutcomes == {"ok", "open_fail", "write_fail"}

CandidateUrls == {AbsoluteUrl(l.url) : l \in Links}

----------------------------------------------------------------------------
(* Files *)

Absent == [exists |-> FALSE, chunks |-> << >>]

Chunk(o, st, n) == [origin |-> o, status |-> st, len |-> n]

OldXlsx == [exists |-> TRUE, chunks |-> <<Chunk(<<"previous">>, 200, 1001)>>]

InstructionsText == Chunk(<<"instructions">>, 0, 0)

OpenForWrite_append(f) == [exists |-> TRUE, chunks |-> f.chunks]

\* open(output_file, "wb") truncates
OpenForWrite(f) == [exists |-> TRUE, chunks |-> << >>]

WriteChunk(f, c) == [f EXCEPT !.chunks = @ \o <<c>>]

\* Path.write_text
WriteText(f, c) == WriteChunk(OpenForWrite(f), c)

\* the file an attempt to write it leaves, by the outcome of the attempt
AfterWrite(f, c, w) ==
    CASE w = "ok" -> WriteChunk(OpenForWrite(f), c)
      [] w = "write_fail" -> OpenForWrite(f)
      [] OTHER -> f

----------------------------------------------------------------------------
(* Decisions of the code *)

ArgMissing_lt1(n) == n < 1

\* line 137
ArgMissing(n) == n < 2

\* response.raise_for_status(), line 57
RaisesForStatus(st) == 400 <= st /\ st < 600

\* line 87
Acceptable(st, n) == st = 200 /\ n > MinContentLength

ExceptionClasses == NetworkErrors \cup {"HTTPError", "OSError"}

\* except Exception, line 94
CaughtInner(e) == e \in ExceptionClasses

CaughtOuter_network(e) == e \in NetworkErrors

\* except Exception, line 100
CaughtOuter(e) == e \in ExceptionClasses

Success_ge0(n) == n >= 0

Success_all(n) == n = Len(LISTS)

\* line 105 and line 151
Success(n) == n > 0

----------------------------------------------------------------------------
(* Initial states *)

Pending == [f \in FileNames |-> "pending"]

NoFetches == [s \in Sources |-> 0]

NoFiles == [f \in FileNames |-> Absent]

\* a directory a previous run left: one list and the instructions
LeftOver ==
    [f \in FileNames |->
        IF f = LISTS[1] THEN OldXlsx
        ELSE IF f = README THEN WriteText(Absent, InstructionsText)
        ELSE Absent]

InitDirs == { [exists |-> FALSE, files |-> NoFiles],
              [exists |-> TRUE, files |-> NoFiles],
              [exists |-> TRUE, files |-> LeftOver] }

\* tests/test_brick.py, lines 11-15
EXPECTED_FILES ==
    [f \in {"list_i_eu_identified.parquet", "list_ii_under_evaluation.parquet",
            "list_iii_national_authority.parquet"} |->
        CASE f = "list_i_eu_identified.parquet" -> 100
          [] f = "list_ii_under_evaluation.parquet" -> 50
          [] OTHER -> 1]

BrickFiles == DOMAIN EXPECTED_FILES

MinTotal == 150

\* the file each row-count test reads
RowCountTests ==
    [t \in {"test_list_i_row_count", "test_list_ii_row_count",
            "test_list_iii_row_count"} |->
        CASE t = "test_list_i_row_count" -> "list_i_eu_identified.parquet"
          [] t = "test_list_ii_row_count" -> "list_ii_under_evaluation.parquet"
          [] OTHER -> "list_iii_national_authority.parquet"]

Tests == DOMAIN RowCountTests \cup {"test_combined_substance_count"}

RowChoices == {0, 1, 49, 50, 99, 100, 109}

NotRun == [t \in Tests |-> "none"]

NoRows == [f \in BrickFiles |-> 0]

FreeWorld == [fixed |-> FALSE]

InitProcess(d) ==
    /\ pc = "main"
    /\ exitStatus = -1
    /\ dirExists = d.exists
    /\ files = d.files
    /\ cur = 1
    /\ export_urls = << >>
    /\ idx = 1
    /\ success_count = 0
    /\ requests = << >>
    /\ pageFetches = NoFetches
    /\ outcome = Pending
    /\ wfailed = {}
    /\ run = 1
    /\ dirExists0 = d.exists
    /\ files0 = d.files
    /\ filesRun1 = d.files

Init ==
    /\ argc \in {1, 2}
    /\ \E d \in InitDirs : InitProcess(d)
    /\ world = FreeWorld
    /\ rows = NoRows
    /\ passed = NotRun

----------------------------------------------------------------------------
(* main, lines 136-157 *)

validatorVars == <<rows, passed>>

historyVars == <<dirExists0, files0, world>>

loopVars == <<cur, export_urls, idx, success_count, requests, pageFetches,
              outcome, wfailed>>

\* lines 137-139
Usage ==
    /\ pc = "main"
    /\ IF ArgMissing(argc)
       THEN pc' = "exited" /\ exitStatus' = 1
       ELSE pc' = "mkdir" /\ exitStatus' = exitStatus
    /\ UNCHANGED <<argc, dirExists, files, run, filesRun1>>
    /\ UNCHANGED <<loopVars, historyVars, validatorVars>>

\* line 142: download_path.mkdir(parents=True, exist_ok=True)
Mkdir(ok) ==
    /\ pc = "mkdir"
    /\ IF ok \/ dirExists
       THEN pc' = "fetch_page" /\ dirExists' = TRUE /\ exitStatus' = exitStatus
       ELSE pc' = "crashed_mkdir" /\ dirExists' = dirExists /\ exitStatus' = 1
    /\ UNCHANGED <<argc, files, run, filesRun1>>
    /\ UNCHANGED <<loopVars, historyVars, validatorVars>>

\* line 103 and the loop header of line 50: on to the next source
NextSource(s, how) ==
    /\ outcome' = [outcome EXCEPT ![s] = how]
    /\ cur' = cur + 1
    /\ pc' = IF cur = Len(LISTS) THEN "returned" ELSE "fetch_page"
    /\ exitStatus' = exitStatus

Propagate_reraise(s, e) ==
    /\ outcome' = [outcome EXCEPT ![s] = "error"]
    /\ cur' = cur
    /\ pc' = "crashed_source"
    /\ exitStatus' = 1

\* an exception that leaves the outer try of lines 54-101
Propagate(s, e) ==
    IF CaughtOuter(e)
    THEN NextSource(s, "error")
    ELSE /\ outcome' = [outcome EXCEPT ![s] = "error"]
         /\ cur' = cur
         /\ pc' = "crashed_source"
         /\ exitStatus' = 1

\* lines 51-79 and 96-98: fetch the page of the source and collect its links
FetchPage(p) ==
    /\ pc = "fetch_page"
    /\ LET s == LISTS[cur] IN
       /\ requests' = <<PageUrl(s)>>
       /\ pageFetches' = [pageFetches EXCEPT ![s] = @ + 1]
       /\ idx' = 1
       /\ wfailed' = {}
       /\ IF p.kind = "exc"
          THEN export_urls' = << >> /\ Propagate(s, p.exc)
          ELSE IF RaisesForStatus(p.status)
          THEN export_urls' = << >> /\ Propagate(s, "HTTPError")
          ELSE /\ export_urls' = Discover(p.html)
               /\ IF Discover(p.html) = << >>
                  THEN NextSource(s, "no_links")
                  ELSE /\ pc' = "try"
                       /\ UNCHANGED <<cur, outcome, exitStatus>>
    /\ UNCHANGED <<argc, dirExists, files, success_count, run, filesRun1>>
    /\ UNCHANGED <<historyVars, validatorVars>>

\* lines 80-95: one iteration of the loop over export_urls
TryCandidate(r, w) ==
    /\ pc = "try"
    /\ LET s == LISTS[cur]
           url == AbsoluteUrl(export_urls[idx])
           accepted == r.kind = "resp" /\ Acceptable(r.status, r.len)
           wrote == accepted /\ w = "ok"
           raised == IF r.kind = "exc" THEN r.exc
                     ELSE IF accepted /\ w # "ok" THEN "OSError"
                     ELSE "none"
       IN
       /\ requests' = Append(requests, url)
       /\ files' = IF accepted
                   THEN [files EXCEPT ![s] = AfterWrite(@, Chunk(url, r.status, r.len), w)]
                   ELSE files
       /\ wfailed' = IF accepted /\ w # "ok" /\ wfailed = {}
                     THEN {<<s, Len(requests) + 1>>}
                     ELSE wfailed
       /\ success_count' = IF wrote THEN success_count + 1 ELSE success_count
       /\ IF wrote
          THEN idx' = idx /\ NextSource(s, "written")
          ELSE IF raised # "none" /\ ~CaughtInner(raised)
          THEN idx' = idx /\ Propagate(s, raised)
          ELSE IF idx < Len(export_urls)
          THEN idx' = idx + 1 /\ UNCHANGED <<cur, outcome, pc, exitStatus>>
          ELSE idx' = idx /\ NextSource(s, "rejected")
    /\ UNCHANGED <<argc, dirExists, export_urls, pageFetches, run, filesRun1>>
    /\ UNCHANGED <<historyVars, validatorVars>>

\* lines 149-157, with create_placeholder_instructions of lines 108-133
Finish(w) ==
    /\ pc = "returned"
    /\ IF Success(success_count)
       THEN /\ pc' = "complete" /\ exitStatus' = 0
            /\ UNCHANGED <<files, outcome>>
       ELSE /\ files' = [files EXCEPT ![README] = AfterWrite(@, InstructionsText, w)]
            /\ IF w = "ok"
               THEN /\ pc' = "complete" /\ exitStatus' = 0
                    /\ outcome' = [outcome EXCEPT ![README] = "written"]
               ELSE /\ pc' = "crashed_instructions" /\ exitStatus' = 1
                    /\ outcome' = [outcome EXCEPT ![README] = "error"]
    /\ UNCHANGED <<argc, dirExists, cur, export_urls, idx, success_count,
                   requests, pageFetches, wfailed, run, filesRun1>>
    /\ UNCHANGED <<historyVars, validatorVars>>

Next ==
    \/ Usage
    \/ \E ok \in BOOLEAN : Mkdir(ok)
    \/ \E p \in PageResults : FetchPage(p)
    \/ \E r \in Responses, w \in WriteOutcomes : TryCandidate(r, w)
    \/ \E w \in WriteOutcomes : Finish(w)

Spec == Init /\ [][Next]_vars

----------------------------------------------------------------------------
(* The stage run again on the directory it left, in a fixed environment *)

LinkA == Link("href", <<"/", "a", ".xlsx">>)

LinkExport == Link("href", <<"export", ".XLSX">>)

LinkDl == Link("data-href", <<"https://", "edlists.org", "/", "dl">>)

IdemPages == { PageExc("ConnectionError"),
               PageResp(200, <<LinkDl, LinkA>>),
               PageResp(200, <<LinkExport>>) }

IdemUrls == {AbsoluteUrl(l.url) : l \in {LinkA, LinkExport, LinkDl}}

IdemServers ==
    { [u \in CandidateUrls |-> IF u \in A THEN Resp(200, 1001) ELSE Resp(404, 1001)] :
        A \in SUBSET IdemUrls }

IdemWrites ==
    { [s \in Sources |-> "ok"] }
    \cup { [s \in Sources |-> IF s = t THEN w ELSE "ok"] :
             t \in Sources, w \in WriteOutcomes \ {"ok"} }

Worlds ==
    [fixed : {TRUE}, mkdir : {TRUE}, page : [Sources -> IdemPages],
     server : IdemServers, write : IdemWrites, readme : {"ok", "open_fail"}]

InitIdem ==
    /\ argc = 2
    /\ \E d \in InitDirs : InitProcess(d)
    /\ world \in Worlds
    /\ rows = NoRows
    /\ passed = NotRun

\* the stage is started again with the same arguments
Rerun ==
    /\ pc \in {"complete", "crashed_instructions"}
    /\ run < MaxRuns
    /\ run' = run + 1
    /\ filesRun1' = IF run = 1 THEN files ELSE filesRun1
    /\ pc' = "main"
    /\ exitStatus' = -1
    /\ cur' = 1
    /\ export_urls' = << >>
    /\ idx' = 1
    /\ success_count' = 0
    /\ requests' = << >>
    /\ pageFetches' = NoFetches
    /\ outcome' = Pending
    /\ wfailed' = {}
    /\ UNCHANGED <<argc, dirExists, files>>
    /\ UNCHANGED <<historyVars, validatorVars>>

NextIdem ==
    \/ Usage
    \/ Mkdir(world.mkdir)
    \/ pc = "fetch_page" /\ FetchPage(world.page[LISTS[cur]])
    \/ pc = "try" /\ TryCandidate(world.server[AbsoluteUrl(export_urls[idx])],
                                  world.write[LISTS[cur]])
    \/ Finish(world.readme)
    \/ Rerun

SpecIdem == InitIdem /\ [][NextIdem]_vars

----------------------------------------------------------------------------
(* The row-count checks of tests/test_brick.py *)

RowCountOk_gt(n, min_rows) == n > min_rows

\* assert len(df) >= min_rows, lines 46, 51, 56
RowCountOk(n, min_rows) == n >= min_rows

\* lines 93-96
Total(r) == r["list_i_eu_identified.parquet"] + r["list_ii_under_evaluation.parquet"]
            + r["list_iii_national_authority.parquet"]

\* assert total >= 150, line 98
CombinedOk(total) == total >= MinTotal

Verdict(ok) == IF ok THEN "pass" ELSE "fail"

InitValidator ==
    /\ argc = 2
    /\ InitProcess([exists |-> TRUE, files |-> NoFiles])
    /\ world = FreeWorld
    /\ rows \in [BrickFiles -> RowChoices]
    /\ passed = NotRun

processVars == <<argc, pc, exitStatus, dirExists, files, run, filesRun1>>

\* lines 43-56
RowCountTest(t) ==
    /\ passed[t] = "none"
    /\ passed' = [passed EXCEPT
                    ![t] = Verdict(RowCountOk(rows[RowCountTests[t]],
                                              EXPECTED_FILES[RowCountTests[t]]))]
    /\ UNCHANGED <<rows, processVars, loopVars, historyVars>>

\* lines 91-98
CombinedTest ==
    /\ passed["test_combined_substance_count"] = "none"
    /\ passed' = [passed EXCEPT
                    !["test_combined_substance_count"] = Verdict(CombinedOk(Total(rows)))]
    /\ UNCHANGED <<rows, processVars, loopVars, historyVars>>

NextValidator ==
    \/ \E t \in DOMAIN RowCountTests : RowCountTest(t)
    \/ CombinedTest

SpecValidator == InitValidator /\ [][NextValidator]_vars

----------------------------------------------------------------------------
(* Properties *)

Processed(s) == outcome[s] # "pending"

Written(s) == outcome[s] = "written"

AfterLoop == pc \in {"returned", "complete", "crashed_instructions"}

Stopped == pc \in {"exited", "crashed_mkdir", "crashed_source", "complete",
                   "crashed_instructions"}

\* the source whose requests the log holds
LogOwner(s) == requests # << >> /\ requests[1] = PageUrl(s)

\* C1: whatever failed while a source was processed, once the process has
\* stopped after the directory was made, the page of each of the three
\* sources was fetched (once) and each source was processed; a source whose
\* candidate was accepted and written has its file.
C1_FailureIsolation ==
    /\ (Stopped /\ pc \notin {"exited", "crashed_mkdir"}) =>
           \A s \in Sources : pageFetches[s] = 1 /\ Processed(s)
    /\ \A i \in 1..Len(LISTS) :
           (i < cur => pageFetches[LISTS[i]] = 1) /\ (Written(LISTS[i]) => files[LISTS[i]].exists)

C1_Witness ==
    /\ pc = "complete"
    /\ outcome[LISTS[1]] = "error"
    /\ outcome[LISTS[2]] = "rejected"
    /\ Written(LISTS[3])
    /\ files[LISTS[3]].exists

\* C2: when main has reached its end, DOWNLOAD_INSTRUCTIONS.md was written by
\* this run exactly when no source file was written by this run; before the
\* end the run does not write it.
C2_InstructionsIffNoneWritten ==
    /\ pc = "complete" =>
           (outcome[README] = "written" <=> \A s \in Sources : ~Written(s))
    /\ outcome[README] = "written" =>
           pc = "complete" /\ files[README] = WriteText(Absent, InstructionsText)
    /\ (run = 1 /\ outcome[README] = "pending") => files[README] = files0[README]

C2_Witness ==
    /\ pc = "complete"
    /\ outcome[README] = "written"
    /\ ~files0[README].exists
    /\ outcome[LISTS[1]] = "error"
    /\ outcome[LISTS[2]] = "no_links"
    /\ outcome[LISTS[3]] = "rejected"

\* C3 as stated: after a run that reports success, the file of each of the
\* three sources exists.
C3_AllFilesExist ==
    (pc = "complete" /\ success_count > 0) => \A s \in Sources : files[s].exists

\* C3 as amended: after a run that reports success, the file exists for at
\* least one source, and for each source whose download was accepted and
\* written; it then holds exactly the accepted body.
C3_SomeFileExists ==
    (pc = "complete" /\ outcome[README] # "written") =>
        /\ \E s \in Sources : Written(s)
        /\ \A s \in Sources : Written(s) =>
              /\ files[s].exists
              /\ Len(files[s].chunks) = 1
              /\ files[s].chunks[1].status = 200
              /\ files[s].chunks[1].len > 1000

C3_Witness ==
    /\ pc = "complete"
    /\ outcome[README] # "written"
    /\ Written(LISTS[2])
    /\ ~files[LISTS[1]].exists
    /\ ~files[LISTS[3]].exists

\* C4: invoked without the output directory argument, the process exits with
\* status 1, and it makes no directory, sends no request and writes no file.
C4_UsageExit ==
    /\ argc < 2 =>
          /\ pc \in {"main", "exited"}
          /\ dirExists = dirExists0
          /\ files = files0
          /\ requests = << >>
          /\ pageFetches = NoFetches
    /\ pc = "exited" <=> (argc < 2 /\ exitStatus = 1)

C4_Witness == pc = "exited" /\ exitStatus = 1 /\ ~dirExists /\ files = NoFiles

\* C5 as stated: once writing <source_name>.xlsx has raised, no further
\* request is sent for that source and the source is not counted as written.
C5_WriteErrorAbortsSource ==
    \A f \in wfailed :
        /\ ~Written(f[1])
        /\ LogOwner(f[1]) => Len(requests) = f[2]

\* C6 as stated: while a source is processed no URL is requested twice, and
\* the page of a source is fetched at most once.
C6_NoUrlRequestedTwice ==
    /\ \A i, j \in 1..Len(requests) : i # j => requests[i] # requests[j]
    /\ \A s \in Sources : pageFetches[s] <= 1

\* the work main has left
Measure == (Len(LISTS) + 1 - cur) * 100
           + (IF pc = "try" THEN Len(export_urls) - idx + 1 ELSE 0)
           + (CASE pc = "main" -> 50 [] pc = "mkdir" -> 40 [] pc = "fetch_page" -> 30
                [] pc = "try" -> 10 [] pc = "returned" -> 5 [] OTHER -> 0)

\* C7: with the argument given and the directory made, nothing that happens
\* to a source ends the process: the sources are processed in the order of
\* LISTS, every step brings main nearer its end, and main stops only at
\* "Download stage complete" with status 0, unless writing the
\* instructions file itself raised.
C7_NothingPerSourceFatal ==
    /\ [](pc # "crashed_source")
    /\ [](\A i \in 1..Len(LISTS) :
             /\ i < cur => Processed(LISTS[i])
             /\ i > cur => ~Processed(LISTS[i]) /\ pageFetches[LISTS[i]] = 0)
    /\ [](AfterLoop => cur = Len(LISTS) + 1)
    /\ []((Stopped /\ pc \notin {"exited", "crashed_mkdir", "crashed_instructions"})
             => pc = "complete" /\ exitStatus = 0)
    /\ [](exitStatus # -1 <=> Stopped)
    /\ [][Measure' < Measure]_vars

C7_Witness ==
    /\ pc = "complete"
    /\ exitStatus = 0
    /\ ~dirExists0
    /\ outcome[LISTS[1]] = "error"
    /\ outcome[LISTS[2]] = "rejected"
    /\ files[LISTS[2]] = OpenForWrite(Absent)
    /\ outcome[LISTS[3]] = "no_links"

\* C8: run again on the directory it left, with every URL answering as
\* before, the stage leaves the files it left the first time; a file it
\* writes holds the new body alone, whatever it held before.
C8_Idempotent ==
    /\ (run >= 2 /\ Stopped) => files = filesRun1
    /\ \A s \in Sources : Written(s) =>
           files[s].exists /\ Len(files[s].chunks) = 1

C8_Witness ==
    /\ run = 2
    /\ pc = "complete"
    /\ Written(LISTS[1])
    /\ files0[LISTS[1]] = OldXlsx
    /\ files[LISTS[1]] # OldXlsx

\* C9: a row-count test passes exactly when the row count reaches the
\* minimum of its dataset (100, 50, 1), so 109 rows of List I pass and 99
\* fail; the combined test passes exactly when the three counts sum to 150
\* or more.
C9_RowCountThresholds ==
    LET i == "list_i_eu_identified.parquet"
        ii == "list_ii_under_evaluation.parquet"
        iii == "list_iii_national_authority.parquet"
        ran(t) == passed[t] # "none"
    IN
    /\ ran("test_list_i_row_count") =>
          (passed["test_list_i_row_count"] = "pass" <=> rows[i] >= 100)
    /\ ran("test_list_ii_row_count") =>
          (passed["test_list_ii_row_count"] = "pass" <=> rows[ii] >= 50)
    /\ ran("test_list_iii_row_count") =>
          (passed["test_list_iii_row_count"] = "pass" <=> rows[iii] >= 1)
    /\ (ran("test_list_i_row_count") /\ rows[i] = 109) =>
          passed["test_list_i_row_count"] = "pass"
    /\ (ran("test_list_i_row_count") /\ rows[i] = 99) =>
          passed["test_list_i_row_count"] = "fail"
    /\ ran("test_combined_substance_count") =>
          (passed["test_combined_substance_count"] = "pass"
              <=> rows[i] + rows[ii] + rows[iii] >= 150)

C9_Witness ==
    /\ rows["list_i_eu_identified.parquet"] = 99
    /\ passed["test_list_i_row_count"] = "fail"
    /\ rows["list_ii_under_evaluation.parquet"] = 50
    /\ passed["test_list_ii_row_count"] = "pass"
    /\ rows["list_iii_national_authority.parquet"] = 0
    /\ passed["test_list_iii_row_count"] = "fail"
    /\ passed["test_combined_substance_count"] = "fail"

\* the candidates of the current source, as they are requested
Candidates == [i \in 1..Len(export_urls) |-> AbsoluteUrl(export_urls[i])]

\* C10 as stated: a source file is written only with a body of status 200
\* and more than 1000 bytes; the candidates are requested in discovery
\* order; the first accepted candidate is the one written and no candidate
\* of the source is requested after it; the success count does not exceed
\* the number of sources processed.
C10_FirstAcceptedIsWritten ==
    /\ \A s \in Sources : Written(s) =>
          /\ files[s].chunks[Len(files[s].chunks)].status = 200
          /\ files[s].chunks[Len(files[s].chunks)].len > 1000
    /\ pc = "try" =>
          /\ Len(requests) = idx
          /\ \A i \in 2..Len(requests) : requests[i] = Candidates[i - 1]
    /\ \A f \in wfailed : LogOwner(f[1]) =>
          /\ Len(requests) = f[2]
          /\ files[f[1]] = files0[f[1]] \/ files[f[1]] = OpenForWrite(Absent)
    /\ success_count <= cur - 1

====
